---- MODULE Spec2Model ----
(***************************************************************************)
(* Event recommender (Frontend/backend/event_recommender.py) and the UI    *)
(* entry points that call it (Frontend/app2.py).                           *)
(*                                                                         *)
(* Text is a sequence of words (the blanks between them are implicit).     *)
(* The sentence encoder is an opaque deterministic function of the text;   *)
(* it is modelled as the sum of fixed integer word vectors of dimension 3. *)
(* Cosine scores are never rounded: every comparison of scores is done in  *)
(* exact integer arithmetic on dot products and squared norms.             *)
(***************************************************************************)
EXTENDS Integers, Sequences, FiniteSets, TLC

VARIABLES
    collections,     \* names of the collections of the in-memory Qdrant client
    points,          \* "my_events": point id -> [vector, payload]
    documents,       \* content of events.json, as json.load returns it
    pc,              \* per caller of main(): position in main()
    idx,             \* per caller of main(): enumerate() position in the loop
    processed,       \* per caller: positions handed to add_event_to_database
    lastAdd,         \* the last add_event_to_database call
    thresholds,      \* the thresholds add_event_to_database was called with
    lastQuery,       \* the last get_user_preferences call
    search_results,  \* content of search_results.json
    loopRuns,        \* how many times the ingestion loop of main() was entered
    endPoints,       \* points at the end of each run of the ingestion loop
    mainCalls        \* how many times main() was called

vars == <<collections, points, documents, pc, idx, processed, lastAdd,
          thresholds, lastQuery, search_results, loopRuns, endPoints, mainCalls>>

-----------------------------------------------------------------------------
(* Bounds of the model *)

MaxId == 1          \* ids a direct caller may put in a record: 0..MaxId
NumCallers == 2     \* concurrent callers of main()
MaxMainCalls == 2   \* calls of main() in one process lifetime

(* Program constants *)

TopK == 10          \* limit=10 of query_points
NAWeightTenths == 6 \* NA_weight = 0.6

CollectionName == "my_events"

\* SIMILARITY_THRESHOLD = 0.835, as the fraction 167/200
SIMILARITY_THRESHOLD == [num |-> 167, den |-> 200]

-----------------------------------------------------------------------------
(* Vectors *)

Dim == 1..3

Zero == [i \in Dim |-> 0]

VAdd(u, v) == [i \in Dim |-> u[i] + v[i]]

Dot(u, v) == u[1] * v[1] + u[2] * v[2] + u[3] * v[3]

Norm2(u) == Dot(u, u)

\* x * |x|: strictly increasing, so it keeps the order of signed values
SignedSq(x) == IF x >= 0 THEN x * x ELSE -(x * x)

\* cosine(u, v) > thr.num / thr.den
ScoreExceeds(u, v, thr) ==
    SignedSq(thr.den * Dot(u, v)) > SignedSq(thr.num) * Norm2(u) * Norm2(v)

\* cosine(q, a) > cosine(q, b)
CloserThan(q, a, b) ==
    SignedSq(Dot(q, a)) * Norm2(b) > SignedSq(Dot(q, b)) * Norm2(a)

-----------------------------------------------------------------------------
(* The encoder *)

Embed(w) ==
    CASE w = "Robotics"   -> <<4, 0, 0>>
      [] w = "Workshop"   -> <<1, 0, 0>>
      [] w = "Session"    -> <<0, 1, 0>>
      [] w = "Painting"   -> <<0, 4, 0>>
      [] w = "Exhibition" -> <<0, 1, 0>>
      [] w = "Tech"       -> <<3, 0, 0>>
      [] w = "Art"        -> <<0, 4, 0>>
      [] w = "Cricket"    -> <<0, 0, 4>>
      [] w = "Startup"    -> <<-4, 0, 0>>
      [] w = "Dance"      -> <<0, -4, 0>>
      [] w = "Lecture"    -> <<0, 0, -4>>
      [] w = "Hackathon"  -> <<3, 3, 3>>
      [] w = "Concert"    -> <<-3, 3, 3>>
      [] w = "Marathon"   -> <<3, -3, 3>>
      [] w = "Quiz"       -> <<3, 3, -3>>
      [] w = "Drama"      -> <<-3, -3, 3>>
      [] w = "Debate"     -> <<-3, 3, -3>>
      [] w = "Technology" -> <<1, 0, 0>>
      [] w = "Cultural"   -> <<0, 1, 0>>
      [] w = "Sports"     -> <<0, 0, 1>>
      [] w = "Electrical" -> <<1, 0, 0>>
      [] w = "Maths"      -> <<0, 0, -1>>
      [] w = "Student"    -> <<0, 0, 1>>
      [] w = "Professor"  -> <<0, 0, -1>>
      [] w = "year"       -> <<0, -1, 0>>
      [] w = "st"         -> <<0, -1, 0>>
      [] w = "2st"        -> <<0, 0, 1>>
      [] w = "N/A"        -> <<1, 1, 1>>
      [] OTHER            -> Zero

RECURSIVE Encode(_)
Encode(text) ==
    IF text = <<>> THEN Zero
    ELSE VAdd(Embed(Head(text)), Encode(Tail(text)))

-----------------------------------------------------------------------------
(* Event records *)

RequiredFields == {"Title", "location", "summary", "target_audience"}

Event(title, summary) ==
    [Title |-> title, location |-> <<"campus">>, summary |-> summary,
     target_audience |-> <<"all">>]

\* doc["id"] = i
WithId(doc, i) == ("id" :> i) @@ doc

\* a record of the event source that lacks its summary
Malformed(title) ==
    [Title |-> title, location |-> <<"campus">>, target_audience |-> <<"all">>]

Robotics  == Event(<<"Robotics", "Workshop">>, <<>>)
Robotics2 == Event(<<"Robotics", "Workshop", "Session">>, <<>>)
Painting  == Event(<<"Painting", "Exhibition">>, <<>>)
TechArt   == Event(<<"Tech", "Art">>, <<>>)

\* doc['Title'] and the other subscripts of line 73 raise KeyError on a missing key
WellFormed(doc) == RequiredFields \subseteq DOMAIN doc

ValuesString(doc) ==
    doc.Title \o doc.location \o doc.summary \o doc.target_audience

\* doc.get("id", 0)
PointId(doc) == IF "id" \in DOMAIN doc THEN doc.id ELSE 0

-----------------------------------------------------------------------------
(* The vector index: nearest-neighbour search and upsert *)

\* a search that ranks by id instead of by score
BestLowestId(pts, ids, q) == CHOOSE i \in ids : \A j \in ids : i <= j

\* the point of ids that ranks first for query q (ties: the smaller id)
Best(pts, ids, q) ==
    CHOOSE i \in ids : \A j \in ids \ {i} :
        /\ ~CloserThan(q, pts[j].vector, pts[i].vector)
        /\ CloserThan(q, pts[i].vector, pts[j].vector) \/ i < j

\* the search with its limit ignored: every point is returned
RECURSIVE HitsNoLimit(_, _, _, _)
HitsNoLimit(pts, ids, q, limit) ==
    IF ids = {} THEN <<>>
    ELSE LET b == Best(pts, ids, q)
         IN  <<b>> \o HitsNoLimit(pts, ids \ {b}, q, limit)

\* client.search / client.query_points: the ids of the `limit` nearest points
\* among ids, by descending cosine score
RECURSIVE Hits(_, _, _, _)
Hits(pts, ids, q, limit) ==
    IF ids = {} \/ limit <= 0 THEN <<>>
    ELSE LET b == Best(pts, ids, q)
         IN  <<b>> \o Hits(pts, ids \ {b}, q, limit - 1)

\* client.upload_points with one PointStruct
Upsert(pts, id, vector, payload) ==
    [i \in DOMAIN pts \cup {id} |->
        IF i = id THEN [vector |-> vector, payload |-> payload] ELSE pts[i]]

\* cosine(u, v) >= thr.num / thr.den
ScoreAtLeast(u, v, thr) ==
    SignedSq(thr.den * Dot(u, v)) >= SignedSq(thr.num) * Norm2(u) * Norm2(v)

\* is_similar_event with ">=" in place of ">"
IsSimilarEventAtLeast(pts, new_vector, threshold) ==
    LET found == Hits(pts, DOMAIN pts, new_vector, 1)
    IN  /\ Len(found) > 0
        /\ ScoreAtLeast(pts[found[1]].vector, new_vector, threshold)

\* is_similar_event with the score read as a distance: similar when the
\* score is below 1 - threshold
IsSimilarEventDistance(pts, new_vector, threshold) ==
    LET found == Hits(pts, DOMAIN pts, new_vector, 1)
    IN  /\ Len(found) > 0
        /\ ~ScoreAtLeast(pts[found[1]].vector, new_vector,
                         [num |-> threshold.den - threshold.num,
                          den |-> threshold.den])

IsSimilarEvent(pts, new_vector, threshold) ==
    LET found == Hits(pts, DOMAIN pts, new_vector, 1)
    IN  /\ Len(found) > 0
        /\ ScoreExceeds(pts[found[1]].vector, new_vector, threshold)

\* add_event_to_database(doc, "my_events", threshold) on the client state
\* (colls, pts): the returned status (or the exception raised) and the points
\* the collection holds afterwards
AddEventToDatabase(doc, threshold, colls, pts) ==
    IF ~WellFormed(doc)
    THEN [status |-> "KeyError", title |-> <<>>, points |-> pts]
    ELSE IF CollectionName \notin colls
    THEN [status |-> "CollectionNotFound", title |-> <<>>, points |-> pts]
    ELSE LET event_vector == Encode(ValuesString(doc))
         IN  IF IsSimilarEvent(pts, event_vector, threshold)
             THEN [status |-> "Skipped event", title |-> doc.Title, points |-> pts]
             ELSE [status |-> "Inserted event", title |-> doc.Title,
                   points |-> Upsert(pts, PointId(doc), event_vector, doc)]

\* no call was made yet
NoCall == [status |-> "none"]

AddEntry(doc, threshold, colls, pts) ==
    LET r == AddEventToDatabase(doc, threshold, colls, pts)
    IN  [doc |-> doc, threshold |-> threshold, existed |-> CollectionName \in colls,
         before |-> pts, after |-> r.points, status |-> r.status, title |-> r.title]

-----------------------------------------------------------------------------
(* get_user_preferences: the weighted text, the query and the result *)

ProfileFields ==
    <<"name", "gender", "role", "department", "year", "interests", "past_events">>

\* weights are held in tenths; int(w) truncates a non-negative weight
IntOf(tenths) == tenths \div 10

\* s * n of Python: the empty string for n <= 0
RECURSIVE Repeat(_, _)
Repeat(text, n) == IF n <= 0 THEN <<>> ELSE text \o Repeat(text, n - 1)

\* ' '.join(list)
RECURSIVE Join(_)
Join(list) == IF list = <<>> THEN <<>> ELSE Head(list) \o Join(Tail(list))

\* the operand of "* int(weight)" for one field (lines 106-112); a string
\* field is the sequence of its words, year is the string str() gives
FieldText(user_data, f) ==
    CASE f = "year"                        -> <<user_data.year \o "st", "year">>
      [] f \in {"interests", "past_events"} -> Join(user_data[f])
      [] OTHER                             -> user_data[f]

Contribution(user_data, weights, f) ==
    Repeat(FieldText(user_data, f), IntOf(weights[f]))

\* p - NA_weight * n, scaled by 10 (the index normalises the query)
CombinedVector(weighted_vector, na_vector, na_tenths) ==
    [i \in Dim |-> 10 * weighted_vector[i] - na_tenths * na_vector[i]]

\* the payloads of the hits, in the order of the hits (lines 128-137)
RECURSIVE Payloads(_, _)
Payloads(pts, hits) ==
    IF hits = <<>> THEN <<>>
    ELSE <<pts[Head(hits)].payload>> \o Payloads(pts, Tail(hits))

\* get_user_preferences(user_data, **weights) on the client state (colls, pts)
GetUserPreferences(user_data, weights, colls, pts) ==
    IF \E k \in 1..Len(ProfileFields) : ProfileFields[k] \notin DOMAIN user_data
    THEN [status |-> "KeyError", user_data |-> user_data, weights |-> weights,
          existed |-> CollectionName \in colls, points |-> pts,
          parts |-> <<>>, weighted_text |-> <<>>, query |-> Zero,
          hits |-> <<>>, result |-> <<>>]
    ELSE LET parts == [k \in 1..Len(ProfileFields) |->
                          Contribution(user_data, weights, ProfileFields[k])]
             weighted_text   == Join(parts)
             na_vector       == Encode(<<"N/A">>)
             weighted_vector == Encode(weighted_text)
             combined_vector == CombinedVector(weighted_vector, na_vector, weights.NA)
             hits == Hits(pts, DOMAIN pts, combined_vector, TopK)
         IN  IF CollectionName \notin colls
             THEN [status |-> "CollectionNotFound", user_data |-> user_data,
                   weights |-> weights, existed |-> FALSE, points |-> pts,
                   parts |-> parts, weighted_text |-> weighted_text, query |-> combined_vector,
                   hits |-> <<>>, result |-> <<>>]
             ELSE [status |-> "returned", user_data |-> user_data,
                   weights |-> weights, existed |-> TRUE, points |-> pts,
                   parts |-> parts, weighted_text |-> weighted_text, query |-> combined_vector,
                   hits |-> hits, result |-> Payloads(pts, hits)]

\* the defaults of the signature (lines 93-100)
DefaultWeights ==
    [name |-> 0, gender |-> 10, role |-> 30, department |-> 20, year |-> 10,
     interests |-> 50, past_events |-> 10, NA |-> NAWeightTenths]

\* a caller's own weights: interests halved below 1, year switched off
LightWeights ==
    [name |-> 0, gender |-> 10, role |-> 10, department |-> 10, year |-> 0,
     interests |-> 5, past_events |-> 10, NA |-> NAWeightTenths]

WeightConfigs == {DefaultWeights, LightWeights}

\* save_user of the UI: a student has a degree year, a professor has year ""
StudentProfile ==
    [name |-> <<"asha">>, gender |-> <<"Female">>, role |-> <<"Student">>,
     department |-> <<"Electrical">>, year |-> "2",
     interests |-> << <<"Technology">>, <<"Sports">> >>, past_events |-> <<>>]

ProfessorProfile ==
    [name |-> <<"ravi">>, gender |-> <<"Male">>, role |-> <<"Professor">>,
     department |-> <<"Maths">>, year |-> "",
     interests |-> << <<"Cultural">> >>,
     past_events |-> << <<"Painting", "Exhibition">> >>]

\* load_user_preferences returns {} when the lookup fails
NoProfile == [f \in {} |-> <<>>]

Profiles == {StudentProfile, ProfessorProfile, NoProfile}

-----------------------------------------------------------------------------
(* Inputs *)

\* records a direct caller of add_event_to_database may pass: with or
\* without an "id", and one that lacks a required field
DirectDocs ==
    LET events == {Robotics, Robotics2, Painting, TechArt}
    IN  events \cup {WithId(e, i) : e \in events, i \in 0..MaxId}
               \cup {Malformed(<<"Quiz">>)}

\* thresholds a direct caller may pass: the default, and 0.6
Thresholds == {SIMILARITY_THRESHOLD, [num |-> 3, den |-> 5]}

\* contents of events.json
DemoSource   == <<Robotics, Painting, Robotics2>>
RepeatSource == <<Robotics, Painting, Robotics, TechArt>>
BrokenSource == <<Robotics, Malformed(<<"Quiz">>), Painting>>
LargeSource  ==
    <<Robotics, Painting, Event(<<"Cricket">>, <<>>), Event(<<"Startup">>, <<>>),
      Event(<<"Dance">>, <<>>), Robotics2, Event(<<"Lecture">>, <<>>),
      Event(<<"Hackathon">>, <<>>), Event(<<"Concert">>, <<>>),
      Event(<<"Marathon">>, <<>>), Event(<<"Quiz">>, <<>>),
      Event(<<"Drama">>, <<>>), Event(<<"Debate">>, <<>>)>>

Callers == 1..NumCallers

-----------------------------------------------------------------------------
(* Initial state: a fresh QdrantClient(":memory:"), nothing called yet *)

InitWith(sources) ==
    /\ collections = {}
    /\ points = <<>>
    /\ documents \in sources
    /\ pc = [p \in Callers |-> "idle"]
    /\ idx = [p \in Callers |-> 1]
    /\ processed = [p \in Callers |-> {}]
    /\ lastAdd = NoCall
    /\ thresholds = {}
    /\ lastQuery = NoCall
    /\ search_results = <<>>
    /\ loopRuns = 0
    /\ endPoints = <<>>
    /\ mainCalls = 0

mainVars == <<documents, pc, idx, processed, loopRuns, endPoints, mainCalls>>

-----------------------------------------------------------------------------
(* Direct calls of the module's functions *)

\* initialize_collection(name), run from its first line to its last
InitializeCollection(colls, name) ==
    IF name \in colls THEN colls ELSE colls \cup {name}

CallInitializeCollection ==
    /\ collections' = InitializeCollection(collections, CollectionName)
    /\ UNCHANGED <<points, lastAdd, thresholds, lastQuery, search_results, mainVars>>

CallAddEvent ==
    \E doc \in DirectDocs, threshold \in Thresholds :
        LET e == AddEntry(doc, threshold, collections, points)
        IN  /\ points' = e.after
            /\ lastAdd' = e
            /\ thresholds' = thresholds \cup {e.threshold}
            /\ UNCHANGED <<collections, lastQuery, search_results, mainVars>>

\* json.dump(resulting_data, f) is reached only when the query returned
SavedResults(call, file) ==
    IF call.status = "returned" THEN call.result ELSE file

\* get_recommendations of the UI: er.get_user_preferences(user_prefs)
CallGetUserPreferences ==
    \E user_data \in Profiles, weights \in WeightConfigs :
        LET call == GetUserPreferences(user_data, weights, collections, points)
        IN  /\ lastQuery' = call
            /\ search_results' = SavedResults(call, search_results)
            /\ UNCHANGED <<collections, points, lastAdd, thresholds, mainVars>>

-----------------------------------------------------------------------------
(* main(), step by step *)

\* where a call of main() can end: its last line, or an exception
Ended == {"done", "ValueError", "KeyError", "CollectionNotFound"}

\* lines 147-151 and 32-35: load events.json, then initialize_collection
\* reads the names of the existing collections
MainStart(p) ==
    /\ pc[p] \in {"idle"} \cup Ended
    /\ mainCalls < MaxMainCalls
    /\ mainCalls' = mainCalls + 1
    /\ idx' = [idx EXCEPT ![p] = 1]
    /\ processed' = [processed EXCEPT ![p] = {}]
    /\ IF CollectionName \in collections
       THEN /\ pc' = [pc EXCEPT ![p] = "ingest"]
            /\ loopRuns' = loopRuns + 1
       ELSE /\ pc' = [pc EXCEPT ![p] = "create"]
            /\ UNCHANGED loopRuns
    /\ UNCHANGED <<collections, points, documents, lastAdd, thresholds, lastQuery,
                   search_results, endPoints>>

\* lines 39-46: client.create_collection raises ValueError when the
\* collection exists by now, and main() ends with that exception
MainCreate(p) ==
    /\ pc[p] = "create"
    /\ IF CollectionName \in collections
       THEN /\ pc' = [pc EXCEPT ![p] = "ValueError"]
            /\ UNCHANGED <<collections, loopRuns>>
       ELSE /\ collections' = collections \cup {CollectionName}
            /\ pc' = [pc EXCEPT ![p] = "ingest"]
            /\ loopRuns' = loopRuns + 1
    /\ UNCHANGED <<points, documents, idx, processed, lastAdd, thresholds, lastQuery,
                   search_results, endPoints, mainCalls>>

\* the id main() gives the record at (1-based) position i: enumerate from 0
AssignedId(i) == i - 1

\* lines 157-160: one iteration of the loop; an exception of
\* add_event_to_database is not caught and ends main()
MainIngest(p) ==
    /\ pc[p] = "ingest"
    /\ idx[p] <= Len(documents)
    /\ LET doc == WithId(documents[idx[p]], AssignedId(idx[p]))
           e   == AddEntry(doc, SIMILARITY_THRESHOLD, collections, points)
           raised == e.status \in {"KeyError", "CollectionNotFound"}
       IN  /\ points' = e.after
           /\ lastAdd' = e
           /\ thresholds' = thresholds \cup {e.threshold}
           /\ processed' = [processed EXCEPT ![p] = @ \cup {idx[p]}]
           /\ IF raised
              THEN /\ pc' = [pc EXCEPT ![p] = e.status]
                   /\ endPoints' = Append(endPoints, points)
                   /\ UNCHANGED idx
              ELSE /\ idx' = [idx EXCEPT ![p] = @ + 1]
                   /\ UNCHANGED <<pc, endPoints>>
    /\ UNCHANGED <<collections, documents, lastQuery, search_results, loopRuns,
                   mainCalls>>

\* the loop is exhausted
MainLoopEnd(p) ==
    /\ pc[p] = "ingest"
    /\ idx[p] > Len(documents)
    /\ pc' = [pc EXCEPT ![p] = "query"]
    /\ endPoints' = Append(endPoints, points)
    /\ UNCHANGED <<collections, points, documents, idx, processed, lastAdd, thresholds,
                   lastQuery, search_results, loopRuns, mainCalls>>

\* lines 161-164: get_user_preferences(user_data) with the default weights
MainQuery(p) ==
    /\ pc[p] = "query"
    /\ LET call == GetUserPreferences(StudentProfile, DefaultWeights,
                                      collections, points)
       IN  /\ lastQuery' = call
           /\ search_results' = SavedResults(call, search_results)
    /\ pc' = [pc EXCEPT ![p] = "done"]
    /\ UNCHANGED <<collections, points, documents, idx, processed, lastAdd, thresholds,
                   loopRuns, endPoints, mainCalls>>

Main(p) ==
    \/ MainStart(p)
    \/ MainCreate(p)
    \/ MainIngest(p)
    \/ MainLoopEnd(p)
    \/ MainQuery(p)

-----------------------------------------------------------------------------
(* Specifications *)

\* the ingestion functions used as a library: direct calls, one after the other
Init == InitWith({DemoSource})

Next ==
    \/ CallInitializeCollection
    \/ CallAddEvent

Spec == Init /\ [][Next]_vars

\* the process as the UI runs it: callers of main() interleave, and
\* recommendation requests arrive at any time
InitStartup == InitWith({DemoSource, RepeatSource, BrokenSource})

NextStartup ==
    \/ \E p \in Callers : Main(p)
    \/ CallGetUserPreferences

SpecStartup == InitStartup /\ [][NextStartup]_vars

\* one caller runs main() again and again, each run after the one before
InitSequential == InitWith({DemoSource, RepeatSource, BrokenSource, LargeSource})

NextSequential ==
    \/ Main(1)
    \/ CallGetUserPreferences

SpecSequential == InitSequential /\ [][NextSequential]_vars

-----------------------------------------------------------------------------
(* Properties of add_event_to_database *)

\* the last call got as far as the duplicate check
Decided(call) ==
    call.status \in {"Skipped event", "Inserted event"}

CallVector(call) == Encode(ValuesString(call.doc))

\* i is a nearest neighbour of v among the points pts
Nearest(pts, v, i) ==
    \A j \in DOMAIN pts : ~CloserThan(v, pts[j].vector, pts[i].vector)

\* the collection held a point, and the score of the nearest one was
\* strictly greater than the threshold of the call
NearestExceeds(call) ==
    \E i \in DOMAIN call.before :
        /\ Nearest(call.before, CallVector(call), i)
        /\ ScoreExceeds(call.before[i].vector, CallVector(call), call.threshold)

\* C1: a call of add_event_to_database with a record that has the four
\* descriptive fields, on an existing collection, is rejected (points
\* unchanged, status "Skipped event: <title>") exactly when the collection
\* holds a point and the nearest neighbour's score is strictly greater than
\* the threshold; in every other case the point is upserted under
\* doc.get("id", 0) and the status is "Inserted event: <title>".
C1_RejectedExactlyWhenNearestExceeds ==
    (lastAdd.status # "none" /\ WellFormed(lastAdd.doc) /\ lastAdd.existed) =>
        /\ Decided(lastAdd)
        /\ lastAdd.title = lastAdd.doc.Title
        /\ (lastAdd.status = "Skipped event") <=> NearestExceeds(lastAdd)
        /\ NearestExceeds(lastAdd) => lastAdd.after = lastAdd.before
        /\ ~NearestExceeds(lastAdd) =>
              LET id == PointId(lastAdd.doc)
              IN  /\ DOMAIN lastAdd.after = DOMAIN lastAdd.before \cup {id}
                  /\ lastAdd.after[id] =
                        [vector |-> CallVector(lastAdd), payload |-> lastAdd.doc]
                  /\ \A j \in DOMAIN lastAdd.before \ {id} :
                        lastAdd.after[j] = lastAdd.before[j]

\* C1 witness: an insert at the boundary: the collection held points and the
\* nearest neighbour's score was equal to the threshold
C1_InsertedAtBoundary ==
    /\ lastAdd.status = "Inserted event"
    /\ \E i \in DOMAIN lastAdd.before :
          /\ Nearest(lastAdd.before, CallVector(lastAdd), i)
          /\ ScoreAtLeast(lastAdd.before[i].vector, CallVector(lastAdd),
                          lastAdd.threshold)

\* e1 and e2 score below the threshold against each other and against every
\* point of pts
Dissimilar(e1, e2, pts, thr) ==
    LET v1 == Encode(ValuesString(e1))
        v2 == Encode(ValuesString(e2))
    IN  /\ ~ScoreAtLeast(v1, v2, thr)
        /\ \A i \in DOMAIN pts :
              /\ ~ScoreAtLeast(pts[i].vector, v1, thr)
              /\ ~ScoreAtLeast(pts[i].vector, v2, thr)

Stored(pts, doc) == \E i \in DOMAIN pts : pts[i].payload = doc

\* C2: when add_event_to_database ingests e1 and then e2, both dissimilar
\* to each other and to every stored event, the collection ends with two
\* more points and holds both payloads, also for records without an "id".
C2_BothRetained ==
    [][(/\ lastAdd.status # "none"
        /\ lastAdd' # lastAdd
        /\ Decided(lastAdd) /\ Decided(lastAdd')
        /\ lastAdd'.threshold = lastAdd.threshold
        /\ Dissimilar(lastAdd.doc, lastAdd'.doc, lastAdd.before,
                      lastAdd.threshold))
       => /\ Cardinality(DOMAIN points') =
                Cardinality(DOMAIN lastAdd.before) + 2
          /\ Stored(points', lastAdd.doc)
          /\ Stored(points', lastAdd'.doc)]_vars

\* C6: a call of add_event_to_database with a record whose id is already
\* stored leaves the collection holding the new record's vector and payload
\* under that id, whatever the new record's text.
C6_LastWriteWins ==
    (/\ lastAdd.status # "none"
     /\ WellFormed(lastAdd.doc)
     /\ lastAdd.existed
     /\ PointId(lastAdd.doc) \in DOMAIN lastAdd.before)
    => /\ PointId(lastAdd.doc) \in DOMAIN points
       /\ points[PointId(lastAdd.doc)] =
             [vector |-> CallVector(lastAdd), payload |-> lastAdd.doc]

\* C11: as long as every call of add_event_to_database on the collection
\* has used one and the same threshold, no two distinct stored points score
\* strictly above that threshold against each other, whatever ids the
\* records carried.
C11_StoredPointsPairwiseDissimilar ==
    \A thr \in thresholds :
        thresholds = {thr} =>
            \A i, j \in DOMAIN points :
                i # j => ~ScoreExceeds(points[i].vector, points[j].vector, thr)

\* C11 witness: under one threshold, an insert has replaced a stored point
\* by a record of another text while a second point is stored
C11_ReplacedUnderOneThreshold ==
    /\ Cardinality(thresholds) = 1
    /\ lastAdd.status = "Inserted event"
    /\ PointId(lastAdd.doc) \in DOMAIN lastAdd.before
    /\ lastAdd.before[PointId(lastAdd.doc)].vector # CallVector(lastAdd)
    /\ DOMAIN points \ {PointId(lastAdd.doc)} # {}

-----------------------------------------------------------------------------
(* Properties of initialization *)

\* C3: the ingestion loop of main() runs at most once in a process lifetime:
\* a further call after the first has finished skips it, and callers that
\* overlap run it once between them.
C3_IngestionAtMostOnce == loopRuns <= 1

\* a nearest-neighbour query was issued to the client
QueryIssued(call) == call.status \in {"returned", "CollectionNotFound"}

\* C4: no recommendation request queries "my_events" before the collection
\* has been created: when get_user_preferences issues its query, the
\* collection exists.
C4_QueryAfterInitialization == QueryIssued(lastQuery) => lastQuery.existed

\* C5: callers of initialize_collection that race for the same absent name
\* all proceed: none of them ends with the exception of a second creation.
C5_RaceTolerantCreation == \A p \in Callers : pc[p] # "ValueError"

\* the same event (the same descriptive text) is stored under two ids
StoredTwice(pts) ==
    \E i, j \in DOMAIN pts :
        i # j /\ ValuesString(pts[i].payload) = ValuesString(pts[j].payload)

\* C7: when main() is run again after a run that has ended, over the same
\* events.json, the collection at the end of each later run holds exactly
\* the points it held at the end of the first run, and no event is stored
\* under two ids.
C7_InitializationIdempotent ==
    \A k \in 1..Len(endPoints) :
        /\ endPoints[k] = endPoints[1]
        /\ ~StoredTwice(endPoints[k])

\* C7 witness: a second run has ended over a source that repeats an event,
\* with more than one point stored
C7_SecondRunEnded ==
    /\ Len(endPoints) = 2
    /\ pc[1] = "done"
    /\ documents = RepeatSource
    /\ Cardinality(DOMAIN points) >= 2

\* C9: when a call of main() has ended, every record of events.json that
\* has the four descriptive fields was handed to add_event_to_database,
\* whether it comes before or after a record that lacks one.
C9_MalformedSkippedAlone ==
    \A p \in Callers :
        pc[p] \in {"done", "KeyError"} =>
            \A i \in 1..Len(documents) :
                WellFormed(documents[i]) => i \in processed[p]

-----------------------------------------------------------------------------
(* Properties of get_user_preferences *)

\* C8: the result holds at most TopK payloads; the scores of its points do
\* not increase along it; and it is the hits of the index, payload by
\* payload, in their order: the nearest min(TopK, size) points.
C8_ResultBoundedAndRanked ==
    lastQuery.status = "returned" =>
        LET pts  == lastQuery.points
            q    == lastQuery.query
            hits == lastQuery.hits
            res  == lastQuery.result
        IN  /\ Len(res) <= TopK
            /\ Len(res) = Len(hits)
            /\ \A k \in 1..Len(res) :
                  hits[k] \in DOMAIN pts /\ res[k] = pts[hits[k]].payload
            /\ \A k \in 1..(Len(hits) - 1) :
                  ~CloserThan(q, pts[hits[k + 1]].vector, pts[hits[k]].vector)
            /\ \A k, l \in 1..Len(hits) : k # l => hits[k] # hits[l]
            /\ \/ Len(hits) = Cardinality(DOMAIN pts)
               \/ /\ Len(hits) = TopK
                  /\ \A i \in DOMAIN pts \ {hits[k] : k \in 1..Len(hits)} :
                        ~CloserThan(q, pts[i].vector, pts[hits[TopK]].vector)
            /\ search_results = res

\* C8 witness: a query returned TopK payloads from a larger collection
C8_TruncatedToTopK ==
    /\ lastQuery.status = "returned"
    /\ Cardinality(DOMAIN lastQuery.points) > TopK
    /\ Len(lastQuery.result) = TopK

\* the field is present in the profile and not empty
NonEmptyField(user_data, f) ==
    /\ f \in DOMAIN user_data
    /\ IF f = "year" THEN user_data[f] # "" ELSE user_data[f] # <<>>

\* C10: in a call of get_user_preferences that returned, a profile field
\* added text to what was encoded if and only if it is present and non-empty
\* and its weight is not zero.
C10_FieldContributesIffWeighted ==
    lastQuery.status = "returned" =>
        \A k \in 1..Len(ProfileFields) :
            (lastQuery.parts[k] # <<>>) <=>
                /\ NonEmptyField(lastQuery.user_data, ProfileFields[k])
                /\ lastQuery.weights[ProfileFields[k]] # 0

====
